---------------------------- MODULE Spec2Model ----------------------------
(***************************************************************************)
(* Compute identity, variant enumeration and job orchestration of the      *)
(* OCCI api (src/occilib/CadScript.py, src/occilib/Admin.py, src/main.py). *)
(*                                                                         *)
(* Python strings are sequences of one-character strings, a dict is the    *)
(* sequence of its (key, value) pairs in insertion order.                  *)
(***************************************************************************)
EXTENDS Integers, Sequences, FiniteSets, TLC

(***************************************************************************)
(* str.encode(): the characters the model uses, with their ASCII codes.    *)
(***************************************************************************)
Lower == <<"a","b","c","d","e","f","g","h","i","j","k","l","m",
           "n","o","p","q","r","s","t","u","v","w","x","y","z">>
Upper == <<"A","B","C","D","E","F","G","H","I","J","K","L","M",
           "N","O","P","Q","R","S","T","U","V","W","X","Y","Z">>
Digits == <<"0","1","2","3","4","5","6","7","8","9">>

Ord == [c \in {Lower[i] : i \in 1..26} |-> 96 + CHOOSE i \in 1..26 : Lower[i] = c]
    @@ [c \in {Upper[i] : i \in 1..26} |-> 64 + CHOOSE i \in 1..26 : Upper[i] = c]
    @@ [c \in {Digits[i] : i \in 1..10} |-> 47 + CHOOSE i \in 1..10 : Digits[i] = c]
    @@ ("=" :> 61) @@ ("&" :> 38) @@ ("-" :> 45) @@ ("_" :> 95) @@ ("." :> 46)

encode(s) == [i \in 1..Len(s) |-> Ord[s[i]]]

(***************************************************************************)
(* hashlib.md5 (RFC 1321).  A 32-bit word is the pair <<high, low>> of its *)
(* 16-bit halves.                                                          *)
(***************************************************************************)
RECURSIVE BitAnd(_, _)
BitAnd(a, b) == IF a = 0 \/ b = 0 THEN 0
                ELSE (a % 2) * (b % 2) + 2 * BitAnd(a \div 2, b \div 2)

RECURSIVE BitXor(_, _)
BitXor(a, b) == IF a = 0 THEN b ELSE IF b = 0 THEN a
                ELSE ((a + b) % 2) + 2 * BitXor(a \div 2, b \div 2)

BitOr(a, b) == a + b - BitAnd(a, b)

BitNot(a) == 65535 - a

WAnd(x, y) == <<BitAnd(x[1], y[1]), BitAnd(x[2], y[2])>>
WOr(x, y)  == <<BitOr(x[1], y[1]), BitOr(x[2], y[2])>>
WXor(x, y) == <<BitXor(x[1], y[1]), BitXor(x[2], y[2])>>
WNot(x)    == <<BitNot(x[1]), BitNot(x[2])>>

WAdd(x, y) == LET lo == x[2] + y[2]
              IN  <<(x[1] + y[1] + (lo \div 65536)) % 65536, lo % 65536>>

Pow2(n) == 2 ^ n

\* rotate left by s, 0 < s < 32
WRotl(x, s) == LET y == IF s >= 16 THEN <<x[2], x[1]>> ELSE x
                   r == s % 16
               IN  IF r = 0 THEN y
                   ELSE <<((y[1] * Pow2(r)) % 65536) + (y[2] \div Pow2(16 - r)),
                          ((y[2] * Pow2(r)) % 65536) + (y[1] \div Pow2(16 - r))>>

MD5_K == <<
  <<55146, 42104>>, <<59591, 46934>>, <<9248, 28891>>, <<49597, 52974>>,
  <<62844, 4015>>, <<18311, 50730>>, <<43056, 17939>>, <<64838, 38145>>,
  <<27008, 39128>>, <<35652, 63407>>, <<65535, 23473>>, <<35164, 55230>>,
  <<27536, 4386>>, <<64920, 29075>>, <<42617, 17294>>, <<18868, 2081>>,
  <<63006, 9570>>, <<49216, 45888>>, <<9822, 23121>>, <<59830, 51114>>,
  <<54831, 4189>>, <<580, 5203>>, <<55457, 59009>>, <<59347, 64456>>,
  <<8673, 52710>>, <<49975, 2006>>, <<62677, 3463>>, <<17754, 5357>>,
  <<43491, 59653>>, <<64751, 41976>>, <<26479, 729>>, <<36138, 19594>>,
  <<65530, 14658>>, <<34673, 63105>>, <<28061, 24866>>, <<64997, 14348>>,
  <<42174, 59972>>, <<19422, 53161>>, <<63163, 19296>>, <<48831, 48240>>,
  <<10395, 32454>>, <<60065, 10234>>, <<54511, 12421>>, <<1160, 7429>>,
  <<55764, 53305>>, <<59099, 39397>>, <<8098, 31992>>, <<50348, 22117>>,
  <<62505, 8772>>, <<17194, 65431>>, <<43924, 9127>>, <<64659, 41017>>,
  <<25947, 22979>>, <<36620, 52370>>, <<65519, 62589>>, <<34180, 24017>>,
  <<28584, 32335>>, <<65068, 59104>>, <<41729, 17172>>, <<19976, 4513>>,
  <<63315, 32386>>, <<48442, 62005>>, <<10967, 53947>>, <<60294, 54161>> >>

MD5_S == <<7, 12, 17, 22, 7, 12, 17, 22, 7, 12, 17, 22, 7, 12, 17, 22,
           5, 9, 14, 20, 5, 9, 14, 20, 5, 9, 14, 20, 5, 9, 14, 20,
           4, 11, 16, 23, 4, 11, 16, 23, 4, 11, 16, 23, 4, 11, 16, 23,
           6, 10, 15, 21, 6, 10, 15, 21, 6, 10, 15, 21, 6, 10, 15, 21>>

MD5_IV == << <<26437, 8961>>, <<61389, 43913>>, <<39098, 56574>>, <<4146, 21622>> >>

\* the message followed by 0x80, zeros up to 56 mod 64, and its bit length
\* as 8 little-endian bytes
MD5Pad(bytes) ==
    LET n    == Len(bytes)
        zs   == (55 - n) % 64
        bits == n * 8
    IN  bytes \o <<128>> \o [i \in 1..zs |-> 0]
        \o <<bits % 256, (bits \div 256) % 256, (bits \div 65536) % 256, 0, 0, 0, 0, 0>>

\* word j (0..15) of the 64-byte block starting after offset off
MD5Word(m, off, j) == <<m[off + 4*j + 3] + 256 * m[off + 4*j + 4],
                        m[off + 4*j + 1] + 256 * m[off + 4*j + 2]>>

MD5F(i, b, c, d) ==
    IF i < 16 THEN WOr(WAnd(b, c), WAnd(WNot(b), d))
    ELSE IF i < 32 THEN WOr(WAnd(d, b), WAnd(WNot(d), c))
    ELSE IF i < 48 THEN WXor(b, WXor(c, d))
    ELSE WXor(c, WOr(b, WNot(d)))

MD5G(i) == IF i < 16 THEN i
           ELSE IF i < 32 THEN (5 * i + 1) % 16
           ELSE IF i < 48 THEN (3 * i + 5) % 16
           ELSE (7 * i) % 16

\* round i (0..63) on the state st = <<A, B, C, D>>
MD5Round(st, m, off, i) ==
    LET f == WAdd(WAdd(WAdd(MD5F(i, st[2], st[3], st[4]), st[1]), MD5_K[i + 1]),
                  MD5Word(m, off, MD5G(i)))
    IN  <<st[4], WAdd(st[2], WRotl(f, MD5_S[i + 1])), st[2], st[3]>>

\* rounds lo..hi-1 in order (split in halves, which keeps the evaluation shallow)
RECURSIVE MD5Rounds(_, _, _, _, _)
MD5Rounds(st, m, off, lo, hi) ==
    IF hi = lo + 1 THEN MD5Round(st, m, off, lo)
    ELSE LET mid  == (lo + hi) \div 2
             half == MD5Rounds(st, m, off, lo, mid)
         IN  IF Len(half) = 4 THEN MD5Rounds(half, m, off, mid, hi) ELSE half

RECURSIVE MD5Blocks(_, _, _)
MD5Blocks(h, m, off) ==
    IF off >= Len(m) THEN h
    ELSE LET st == MD5Rounds(h, m, off, 0, 64)
         IN  MD5Blocks([k \in 1..4 |-> WAdd(h[k], st[k])], m, off + 64)

WBytes(x) == <<x[2] % 256, x[2] \div 256, x[1] % 256, x[1] \div 256>>

\* hashlib.md5(bytes).digest(): 16 bytes
md5_digest(bytes) ==
    LET h == MD5Blocks(MD5_IV, MD5Pad(bytes), 0)
    IN  WBytes(h[1]) \o WBytes(h[2]) \o WBytes(h[3]) \o WBytes(h[4])

(***************************************************************************)
(* base64.urlsafe_b64encode: 3 bytes to 4 characters of A-Z a-z 0-9 - _,   *)
(* a short last group padded with "=".                                     *)
(***************************************************************************)
B64Char(n) == IF n < 26 THEN Upper[n + 1]
              ELSE IF n < 52 THEN Lower[n - 25]
              ELSE IF n < 62 THEN Digits[n - 51]
              ELSE IF n = 62 THEN "-" ELSE "_"

B64Group(bs) ==
    LET b1 == bs[1]
        b2 == IF Len(bs) >= 2 THEN bs[2] ELSE 0
        b3 == IF Len(bs) >= 3 THEN bs[3] ELSE 0
    IN  << B64Char(b1 \div 4),
           B64Char((b1 % 4) * 16 + b2 \div 16),
           IF Len(bs) >= 2 THEN B64Char((b2 % 16) * 4 + b3 \div 64) ELSE "=",
           IF Len(bs) >= 3 THEN B64Char(b3 % 64) ELSE "=" >>

RECURSIVE urlsafe_b64encode(_)
urlsafe_b64encode(bs) ==
    IF Len(bs) = 0 THEN <<>>
    ELSE IF Len(bs) <= 3 THEN B64Group(bs)
    ELSE B64Group(SubSeq(bs, 1, 3)) \o urlsafe_b64encode(SubSeq(bs, 4, Len(bs)))

HASH_LENGTH_TRUNCATE == 11

\* CadScript._hash
_hash(inp) == SubSeq(urlsafe_b64encode(md5_digest(encode(inp))), 1, HASH_LENGTH_TRUNCATE)

(***************************************************************************)
(* Python values.  A value that may be None is a tagged record: None, an   *)
(* int, a str, a bool, a list or a dict (the sequence of its items in      *)
(* insertion order).  str() as the f-string of CadScript.hash applies it:  *)
(* an int in decimal, a str as itself, a bool as True or False.            *)
(***************************************************************************)
NoneV    == [t |-> "None"]
IntV(n)  == [t |-> "int", i |-> n]
StrV(s)  == [t |-> "str", s |-> s]
BoolV(b) == [t |-> "bool", b |-> b]
ListV(l) == [t |-> "list", l |-> l]
DictV(d) == [t |-> "dict", d |-> d]

RECURSIVE NatStr(_)
NatStr(n) == IF n < 10 THEN <<Digits[n + 1]>>
             ELSE NatStr(n \div 10) \o <<Digits[(n % 10) + 1]>>

format_value(v) ==
    CASE v.t = "int"  -> IF v.i < 0 THEN <<"-">> \o NatStr(0 - v.i) ELSE NatStr(v.i)
      [] v.t = "str"  -> v.s
      [] v.t = "bool" -> IF v.b THEN <<"T","r","u","e">> ELSE <<"F","a","l","s","e">>
      [] v.t = "None" -> <<"N","o","n","e">>

(***************************************************************************)
(* CadScript.hash.  self is a record; a CadScriptRequest is one with a     *)
(* request field.  params is None or a dict of name -> value.              *)
(***************************************************************************)
hasattr(self, attr) == attr \in DOMAIN self

\* ModelRequest: the request a CadScriptRequest carries, its hash not yet set
ModelRequest(params, format) == [hash |-> NoneV, params |-> params, format |-> format]

\* the loop of lines 168-171: name=value& per item, in the dict's order
RECURSIVE params_str(_)
params_str(items) ==
    IF Len(items) = 0 THEN <<>>
    ELSE Head(items)[1] \o <<"=">> \o format_value(Head(items)[2]) \o <<"&">>
         \o params_str(Tail(items))

\* lines 167-173: the string _hash is called on, self.name + params_str
digest_input(self, params) == self.name \o params_str(params.d)

\* the value CadScript.hash returns
hash(self, params) ==
    IF params = NoneV /\ (~hasattr(self, "request") \/ self.request = NoneV)
    THEN NoneV
    ELSE LET ps == IF params = NoneV THEN self.request.params ELSE params
         IN  StrV(_hash(digest_input(self, ps)))

\* self after CadScript.hash returned: the hash is set on the request too
hash_self(self, params) ==
    IF hash(self, params) # NoneV /\ hasattr(self, "request")
    THEN [self EXCEPT !.request.hash = hash(self, params)]
    ELSE self

(***************************************************************************)
(* ParamConfig (occilib/Param.py): name, default, enabled, iterable, and   *)
(* values(), the ordered finite list of allowed values or None when the    *)
(* domain is not enumerable.                                               *)
(***************************************************************************)
values(param) == IF param.iterable THEN ListV(param.domain) ELSE NoneV

\* is_cachable with line 192 testing `iterable is None`: no parameter is
is_cachable_none_test(self) ==
    \A i \in 1..Len(self.params) : self.params[i].iterable \in BOOLEAN

\* CadScript.is_cachable
is_cachable(self) == \A i \in 1..Len(self.params) : self.params[i].iterable # FALSE

\* lines 253-259: the value list of every parameter, of a disabled one only
\* its default
all_values_per_parameter(self) ==
    [i \in 1..Len(self.params) |->
        IF self.params[i].enabled THEN values(self.params[i])
        ELSE ListV(<<self.params[i].default>>)]

RECURSIVE concat(_)
concat(ss) == IF Len(ss) = 0 THEN <<>> ELSE Head(ss) \o concat(Tail(ss))

\* itertools.product with the first list cycling fastest
RECURSIVE product_first_fastest(_)
product_first_fastest(lists) ==
    IF Len(lists) = 0 THEN << <<>> >>
    ELSE LET rest == product_first_fastest(Tail(lists))
             hd   == Head(lists).l
         IN  concat([j \in 1..Len(rest) |-> [i \in 1..Len(hd) |-> <<hd[i]>> \o rest[j]]])

\* itertools.product(*lists): the tuples in the order in which the last list
\* cycles fastest
RECURSIVE product(_)
product(lists) ==
    IF Len(lists) = 0 THEN << <<>> >>
    ELSE LET rest == product(Tail(lists))
             hd   == Head(lists).l
         IN  concat([i \in 1..Len(hd) |-> [j \in 1..Len(rest) |-> <<hd[i]>> \o rest[j]]])

\* itertools.product raises TypeError on an argument that is None
product_raises(lists) == \E i \in 1..Len(lists) : lists[i] = NoneV

\* lines 262-269: the dict of a combination, keyed by the parameters' names
param_values_of(self, combination) ==
    [index \in 1..Len(combination) |-> <<self.params[index].name, combination[index]>>]

\* lines 267-272: what iterate_possible_model_params_dicts yields for a combination
yield_item(self, combination) ==
    <<hash(self, DictV(param_values_of(self, combination))),
      param_values_of(self, combination)>>

\* d[key] = value on a dict: the value of a key that is there is replaced
dict_set(d, key, value) ==
    IF \E k \in 1..Len(d) : d[k][1] = key
    THEN [k \in 1..Len(d) |-> IF d[k][1] = key THEN <<key, value>> ELSE d[k]]
    ELSE Append(d, <<key, value>>)

\* lines 230-242: all_model_param_sets after the loop over the combinations
RECURSIVE all_model_param_sets(_, _, _)
all_model_param_sets(self, combinations, sets) ==
    IF Len(combinations) = 0 THEN sets
    ELSE all_model_param_sets(self, Tail(combinations),
             dict_set(sets, hash(self, DictV(param_values_of(self, Head(combinations)))),
                      param_values_of(self, Head(combinations))))

\* all_possible_model_params_dicts taking values() of a disabled parameter too
all_possible_model_params_dicts_all_values(self) ==
    IF ~is_cachable(self) THEN DictV(<<>>)
    ELSE DictV(all_model_param_sets(self,
                  product([i \in 1..Len(self.params) |-> values(self.params[i])]), <<>>))

\* CadScript.all_possible_model_params_dicts: a dict of hash -> param_values
all_possible_model_params_dicts(self) ==
    IF ~is_cachable(self) THEN DictV(<<>>)
    ELSE DictV(all_model_param_sets(self, product(all_values_per_parameter(self)), <<>>))

\* self after all_possible_model_params_dicts returned: hash() was called
\* for every combination, the last of them last
after_all_possible_model_params_dicts(self) ==
    LET combinations == product(all_values_per_parameter(self))
    IN  IF ~is_cachable(self) \/ Len(combinations) = 0 THEN self
        ELSE hash_self(self, DictV(param_values_of(self, combinations[Len(combinations)])))

\* CadScript.get_num_variants; only_params is None or a list of names
RECURSIVE dict_from(_, _, _)
dict_from(self, names, seen) ==
    IF Len(names) = 0 THEN <<>>
    ELSE LET pn == Head(names)
             ix == {i \in 1..Len(self.params) : self.params[i].name = pn}
         IN  IF ix = {} \/ pn \in seen THEN dict_from(self, Tail(names), seen)
             ELSE <<self.params[CHOOSE i \in ix : TRUE]>>
                  \o dict_from(self, Tail(names), seen \cup {pn})

selected_params(self, only_params) ==
    IF only_params = NoneV THEN self.params ELSE dict_from(self, only_params.l, {})

\* the loop of lines 286-292 over the parameters ps, from num_combinations = n
RECURSIVE num_combinations(_, _)
num_combinations(ps, n) ==
    IF Len(ps) = 0 THEN IntV(n)
    ELSE IF ~Head(ps).enabled THEN num_combinations(Tail(ps), n)
    ELSE IF values(Head(ps)) = NoneV THEN NoneV
    ELSE num_combinations(Tail(ps), n * Len(values(Head(ps)).l))

\* get_num_variants without the test of line 288: a disabled parameter counts
RECURSIVE num_combinations_all(_, _)
num_combinations_all(ps, n) ==
    IF Len(ps) = 0 THEN IntV(n)
    ELSE IF values(Head(ps)) = NoneV THEN NoneV
    ELSE num_combinations_all(Tail(ps), n * Len(values(Head(ps)).l))

get_num_variants_all(self, only_params) ==
    num_combinations_all(selected_params(self, only_params), 1)

get_num_variants(self, only_params) ==
    num_combinations(selected_params(self, only_params), 1)

(***************************************************************************)
(* The scripts the enumeration is checked on: name "box", up to MaxParams  *)
(* parameters declared in the order width, color, depth, each enabled or   *)
(* disabled, and either not iterable or iterable over the first 0 to       *)
(* MaxDomain values of its type.                                           *)
(***************************************************************************)
MaxParams == 2
MaxDomain == 2

ParamNames == << <<"w","i","d","t","h">>, <<"c","o","l","o","r">>, <<"d","e","p","t","h">> >>

ParamRange ==
    << [k \in 1..4 |-> IntV(k)],
       << StrV(<<"r","e","d">>), StrV(<<"b","l","u","e">>),
          StrV(<<"g","r","e","e","n">>), StrV(<<"g","o","l","d">>) >>,
       [k \in 1..4 |-> IntV(10 * k)] >>

ParamConfigs(i) ==
    { [name |-> ParamNames[i], default |-> ParamRange[i][1], enabled |-> e,
       iterable |-> it, domain |-> IF it THEN SubSeq(ParamRange[i], 1, k) ELSE <<>>]
      : e \in BOOLEAN, it \in BOOLEAN, k \in 0..MaxDomain } 

BoxName == <<"b","o","x">>

RECURSIVE ParamLists(_)
ParamLists(n) ==
    IF n = 0 THEN { <<>> }
    ELSE { Append(ps, p) : ps \in ParamLists(n - 1), p \in ParamConfigs(n) }

\* a CadScript, and the CadScriptRequest of it with its default request
EnumScripts ==
    { [name |-> BoxName, params |-> ps] : ps \in UNION { ParamLists(n) : n \in 0..MaxParams } }
        \cup { [name |-> BoxName, params |-> ps, request |-> ModelRequest(DictV(<<>>), "step")]
                  : ps \in UNION { ParamLists(n) : n \in 0..MaxParams } }

Permutations_(n) == { f \in [1..n -> 1..n] : \A i, j \in 1..n : f[i] = f[j] => i = j }

(***************************************************************************)
(* The script library the jobs run on.  A script is found by its           *)
(* coordinates <<org, name, version>>.                                     *)
(*   box   cachable: width in 1, 2 and color in red, both enabled          *)
(*   knob  not cachable: label is a text parameter, not iterable           *)
(*   gear  cachable, not in the library at start: the one to publish       *)
(*   nut   as gear, with a name shorter than a published name may be       *)
(*   dial  as knob, not in the library at start                            *)
(***************************************************************************)
Occi == <<"o","c","c","i">>
KnobName  == <<"k","n","o","b">>
GearName  == <<"g","e","a","r">>
NutName   == <<"n","u","t">>
NopeName  == <<"n","o","p","e">>
DialName  == <<"d","i","a","l">>
LabelName == <<"l","a","b","e","l">>
TeethName == <<"t","e","e","t","h">>
SizeName  == <<"s","i","z","e">>

CodeLen == 24

Box ==
    [org |-> Occi, name |-> BoxName, version |-> "1.0", code |-> StrV([i \in 1..CodeLen |-> "x"]),
     params |->
       << [name |-> ParamNames[1], default |-> IntV(1), enabled |-> TRUE,
           iterable |-> TRUE, domain |-> <<IntV(1), IntV(2)>>],
          [name |-> ParamNames[2], default |-> StrV(<<"r","e","d">>), enabled |-> TRUE,
           iterable |-> TRUE, domain |-> <<StrV(<<"r","e","d">>)>>] >>]

Knob ==
    [org |-> Occi, name |-> KnobName, version |-> "1.0", code |-> StrV([i \in 1..CodeLen |-> "x"]),
     params |->
       << [name |-> LabelName, default |-> StrV(<<"a">>), enabled |-> TRUE,
           iterable |-> FALSE, domain |-> <<>>] >>]

Gear ==
    [org |-> Occi, name |-> GearName, version |-> "1.0", code |-> StrV([i \in 1..CodeLen |-> "x"]),
     params |->
       << [name |-> TeethName, default |-> IntV(8), enabled |-> TRUE,
           iterable |-> TRUE, domain |-> <<IntV(8)>>] >>]

Nut == [Gear EXCEPT !.name = NutName]

Dial == [Knob EXCEPT !.name = DialName]

AllScripts == {Box, Knob, Gear, Nut, Dial}

script_id(sc) == <<sc.org, sc.name, sc.version>>

BoxId  == script_id(Box)
KnobId == script_id(Knob)
GearId == script_id(Gear)
NopeId == <<Occi, NopeName, "1.0">>

ScriptAt(id) == CHOOSE sc \in AllScripts : script_id(sc) = id

Unset == [op |-> "unset"]

MaxTasks   == 2
MaxBatches == 2
MaxTime    == 1

VARIABLES
    script,        \* the CadScript the calls of the enumeration are made on
    cachable,      \* what is_cachable() returned, Unset before the call
    num_variants,  \* what get_num_variants() returned, Unset before the call
    it_state,      \* the generator of iterate_possible_model_params_dicts:
                   \* created, running, exhausted or raised
    yielded,       \* the items it has yielded so far, in order
    req,           \* a hash() call on a dict built in another order: its
                   \* argument and its result, Unset before the call
    all_dicts,     \* what all_possible_model_params_dicts() returned, Unset
                   \* before the call
    digests,       \* the hash() calls made on (script name, dict) pairs: the
                   \* pair, the string fed to the digest and the hash
    library,       \* CadLibrary.scripts: the coordinates of the scripts in it
    tasks,         \* the Celery tasks sent so far; a task's id is its index
    markers,       \* the .compute files: one per (script, hash) being computed
    cache,         \* the compute cache: entries per (script, hash, format)
    batches,       \* the compute_script_cache_async coroutines created so far
    log,           \* the batch ids Admin's precalc on_done has logged
    publish_jobs,  \* Admin.publish_jobs
    now,           \* the clock, in seconds
    resp           \* the last HTTP response, with the request it answers

enumVars == <<script, cachable, num_variants, it_state, yielded, req, all_dicts, digests>>
jobVars  == <<library, tasks, markers, cache, batches, log, publish_jobs, now, resp>>
vars == <<enumVars, jobVars>>

InitJobs ==
    /\ library = {BoxId, KnobId}
    /\ tasks = <<>>
    /\ markers = {}
    /\ cache = {}
    /\ batches = <<>>
    /\ log = <<>>
    /\ publish_jobs = {}
    /\ now = 0
    /\ resp = Unset

InitEnum ==
    /\ script \in EnumScripts
    /\ cachable = Unset
    /\ num_variants = Unset
    /\ it_state = "created"
    /\ yielded = <<>>
    /\ req = Unset
    /\ all_dicts = Unset
    /\ digests = <<>>
    /\ InitJobs

CallIsCachable ==
    /\ cachable = Unset
    /\ cachable' = BoolV(is_cachable(script))
    /\ UNCHANGED <<script, num_variants, it_state, yielded, req, all_dicts, digests, jobVars>>

CallGetNumVariants ==
    /\ cachable # Unset
    /\ num_variants = Unset
    /\ num_variants' = get_num_variants(script, NoneV)
    /\ UNCHANGED <<script, cachable, it_state, yielded, req, all_dicts, digests, jobVars>>

\* next() on the generator: it raises, yields the next item or stops
IterNext ==
    /\ num_variants # Unset
    /\ req = Unset
    /\ it_state \in {"created", "running"}
    /\ LET lists == all_values_per_parameter(script)
       IN  IF product_raises(lists)
           THEN /\ it_state' = "raised"
                /\ UNCHANGED <<yielded, script>>
           ELSE IF Len(yielded) < Len(product(lists))
           THEN /\ it_state' = "running"
                /\ yielded' = Append(yielded, yield_item(script, product(lists)[Len(yielded) + 1]))
                /\ script' = hash_self(script, DictV(param_values_of(script,
                                                   product(lists)[Len(yielded) + 1])))
           ELSE /\ it_state' = "exhausted"
                /\ UNCHANGED <<yielded, script>>
    /\ UNCHANGED <<cachable, num_variants, req, all_dicts, digests, jobVars>>

\* hash() on the dict last yielded, its items inserted in the order f
CallHash ==
    /\ req = Unset
    /\ it_state = "running"
    /\ \E f \in Permutations_(Len(script.params)) :
          LET d == yielded[Len(yielded)][2]
              a == DictV([i \in 1..Len(d) |-> d[f[i]]])
          IN  /\ req' = [params |-> a, hash |-> hash(script, a)]
              /\ script' = hash_self(script, a)
    /\ UNCHANGED <<cachable, num_variants, it_state, yielded, all_dicts, digests, jobVars>>

\* all_possible_model_params_dicts() once the generator has ended
CallAllPossible ==
    /\ all_dicts = Unset
    /\ it_state \in {"exhausted", "raised"}
    /\ all_dicts' = all_possible_model_params_dicts(script)
    /\ script' = after_all_possible_model_params_dicts(script)
    /\ UNCHANGED <<cachable, num_variants, it_state, yielded, req, digests, jobVars>>

NextEnum == CallIsCachable \/ CallGetNumVariants \/ IterNext \/ CallHash \/ CallAllPossible

SpecEnum == InitEnum /\ [][NextEnum]_vars

(***************************************************************************)
(* CadScript.hash as a function of (script name, dict): the calls are made *)
(* on scripts named gear and gears, with dicts of the int and text         *)
(* parameters id, sid and n.                                               *)
(***************************************************************************)
MaxDigests == 2

IdentityNames == { <<"g","e","a","r">>, <<"g","e","a","r","s">> }

IdentityDicts ==
    LET id  == <<"i","d">>
        sid == <<"s","i","d">>
        n   == <<"n">>
    IN  { <<>>,
          << <<id, IntV(1)>> >>,
          << <<sid, IntV(1)>> >>,
          << <<id, StrV(<<"1">>)>> >>,
          << <<id, StrV(<<"1","&","n","=","2">>)>> >>,
          << <<id, StrV(<<"1">>)>>, <<n, StrV(<<"2">>)>> >>,
          << <<id, IntV(1)>>, <<n, IntV(2)>> >>,
          << <<id, IntV(2)>>, <<n, IntV(1)>> >> }

\* hash(params) on a script of the given name
CallHashOn(name, d) ==
    LET self == [name |-> name, params |-> <<>>]
    IN  /\ Len(digests) < MaxDigests
        /\ digests' = Append(digests, [name |-> name, params |-> DictV(d),
                                       inp |-> digest_input(self, DictV(d)),
                                       hash |-> hash(self, DictV(d))])
        /\ UNCHANGED <<script, cachable, num_variants, it_state, yielded, req, all_dicts, jobVars>>

NextIdentity == \E name \in IdentityNames, d \in IdentityDicts : CallHashOn(name, d)

InitIdentity ==
    /\ script = [name |-> BoxName, params |-> <<>>]
    /\ cachable = Unset
    /\ num_variants = Unset
    /\ it_state = "created"
    /\ yielded = <<>>
    /\ req = Unset
    /\ all_dicts = Unset
    /\ digests = <<>>
    /\ InitJobs

SpecIdentity == InitIdentity /\ [][NextIdentity]_vars

(***************************************************************************)
(* Celery, as main.py uses it: AsyncResult(id).state is PENDING for an id  *)
(* the result backend does not know (never sent, or expired), the task is  *)
(* set to SENT when it is published, ready() is state in READY_STATES.     *)
(***************************************************************************)
READY_STATES == {"SUCCESS", "FAILURE", "REVOKED"}

AsyncResult_state(celery_task_id) ==
    IF celery_task_id \in 1..Len(tasks) THEN tasks[celery_task_id].state ELSE "PENDING"

ready(state) == state \in READY_STATES

\* the artifact the worker computes for a (script, hash) in a format
Model(id, h, format) == [model_of |-> id, hash |-> h, format |-> format]

\* AsyncResult(id).result of a task that succeeded: the CadScriptResult dict
AsyncResult_result(celery_task_id) ==
    LET task == tasks[celery_task_id]
    IN  [script |-> task.script,
         request |-> [hash |-> task.hash, params |-> task.params, format |-> task.format],
         results |-> [models |-> Model(task.script, task.hash, task.format)]]

new_task(id, h, params, format) ==
    [state |-> "SENT", script |-> id, hash |-> h,
     params |-> params, format |-> format]

(***************************************************************************)
(* CadLibrary: the script lookup, the in-flight markers (.compute files)   *)
(* and the compute cache.                                                  *)
(***************************************************************************)
CadScriptRequest(sc, request) ==
    [org |-> sc.org, name |-> sc.name, version |-> sc.version, code |-> sc.code,
     params |-> sc.params, request |-> request]

get_script_request(id) ==
    IF id \in library
    THEN CadScriptRequest(ScriptAt(id), ModelRequest(DictV(<<>>), "step"))
    ELSE NoneV

marker_of(id, h) == { m \in markers : m.script = id /\ m.hash = h }

\* the ModelComputeJob of the marker of (script, hash), None without a marker
check_script_model_computing_job(scr, script_instance_hash) ==
    IF scr = NoneV \/ marker_of(script_id(scr), script_instance_hash) = {}
    THEN NoneV
    ELSE LET m == CHOOSE m \in marker_of(script_id(scr), script_instance_hash) : TRUE
         IN  [status |-> "working", celery_task_id |-> m.celery_task_id,
              celery_task_status |-> "None", script |-> m.script, hash |-> m.hash,
              elapsed_time |-> now - m.created_at]

\* the marker of (script, hash) written for a task, replacing the one there
set_marker(ms, id, h, celery_task_id) ==
    { m \in ms : ~(m.script = id /\ m.hash = h) }
        \cup { [script |-> id, hash |-> h, celery_task_id |-> celery_task_id,
                created_at |-> now] }

\* the .compute file is left where it is
del_marker_keeps(ms, id, h) == ms

del_marker(ms, id, h) == { m \in ms : ~(m.script = id /\ m.hash = h) }

\* the lookup finds nothing, whatever is cached
cache_get_misses(id, h, format) == {}

cache_get(id, h, format) ==
    { c \in cache : c.script = id /\ c.hash = h /\ c.format = format }

\* put is write-once: an entry that is there stays as it is
cache_put(ch, id, h, format, content) ==
    IF \E c \in ch : c.script = id /\ c.hash = h /\ c.format = format THEN ch
    ELSE ch \cup { [script |-> id, hash |-> h, format |-> format, content |-> content] }

\* CadLibrary._apply_single_model_format: the result in its requested
\* format, which is put in the compute cache
_apply_single_model_format(script_result) == script_result

cache_after_result(ch, script_result) ==
    cache_put(ch, script_result.script, script_result.request.hash,
              script_result.request.format, script_result.results.models)

(***************************************************************************)
(* The requests the jobs are made of.  hash_memo holds CadScript.hash for  *)
(* the (script, dict) pairs they hash, evaluated once.                     *)
(***************************************************************************)
JobScripts == {Box}

\* the dicts a model request of a script may carry: a value per parameter,
\* in declaration order
request_lists(sc) ==
    [i \in 1..Len(sc.params) |->
        IF values(sc.params[i]) = NoneV THEN ListV(<<sc.params[i].default>>)
        ELSE values(sc.params[i])]

RequestDicts(sc) ==
    { param_values_of(sc, product(request_lists(sc))[k])
        : k \in 1..Len(product(request_lists(sc))) }

hash_memo ==
    [x \in UNION { { <<script_id(sc), d>> : d \in RequestDicts(sc) } : sc \in JobScripts } |->
        hash(CadScriptRequest(ScriptAt(x[1]), ModelRequest(DictV(x[2]), "step")), NoneV).s]

BogusHash == [i \in 1..HASH_LENGTH_TRUNCATE |-> "A"]

(***************************************************************************)
(* A model request of a client (the generated script endpoint and          *)
(* ModelRequestHandler): a cached result is returned, a request whose      *)
(* (script, hash) has a marker is referred to the job there, and otherwise *)
(* a task is sent, which sets it to SENT, and its marker is written.       *)
(***************************************************************************)
submitOne(id, d, format) ==
    LET h == hash_memo[<<id, d>>]
    IN  /\ id \in library
        /\ IF cache_get(id, h, format) # {}
           THEN /\ resp' = [op |-> "model", script |-> id, hash |-> h, outcome |-> "cached",
                            body |-> (CHOOSE c \in cache_get(id, h, format) : TRUE).content]
                /\ UNCHANGED <<tasks, markers>>
           ELSE IF marker_of(id, h) # {}
           THEN /\ resp' = [op |-> "model", script |-> id, hash |-> h, outcome |-> "job",
                            body |-> (CHOOSE m \in marker_of(id, h) : TRUE).celery_task_id]
                /\ UNCHANGED <<tasks, markers>>
           ELSE /\ Len(tasks) < MaxTasks
                /\ tasks' = Append(tasks, new_task(id, h, DictV(d), format))
                /\ markers' = set_marker(markers, id, h, Len(tasks) + 1)
                /\ resp' = [op |-> "model", script |-> id, hash |-> h, outcome |-> "job",
                            body |-> Len(tasks) + 1]
        /\ UNCHANGED <<enumVars, library, cache, batches, log, publish_jobs, now>>

(***************************************************************************)
(* The worker pool and the result backend.                                 *)
(***************************************************************************)
\* with task_track_started the worker reports that it has started the task
WorkerStart(t) ==
    /\ tasks[t].state = "SENT"
    /\ tasks' = [tasks EXCEPT ![t].state = "STARTED"]
    /\ UNCHANGED <<enumVars, library, markers, cache, batches, log, publish_jobs, now>>
    /\ resp' = Unset

\* the task resolves: its marker is deleted
WorkerFinish(t, state) ==
    /\ tasks[t].state \in {"SENT", "STARTED"}
    /\ tasks' = [tasks EXCEPT ![t].state = state]
    /\ markers' = del_marker(markers, tasks[t].script, tasks[t].hash)
    /\ UNCHANGED <<enumVars, library, cache, batches, log, publish_jobs, now>>
    /\ resp' = Unset

\* result_expires: the backend forgets the result of a resolved task
Expire(t) ==
    /\ ready(tasks[t].state)
    /\ tasks' = [tasks EXCEPT ![t].state = "PENDING"]
    /\ UNCHANGED <<enumVars, library, markers, cache, batches, log, publish_jobs, now>>
    /\ resp' = Unset

Tick ==
    /\ now < MaxTime
    /\ now' = now + 1
    /\ UNCHANGED <<enumVars, library, tasks, markers, cache, batches, log, publish_jobs>>
    /\ resp' = Unset

(***************************************************************************)
(* main.py: GET /{org}/{name}/{version}/{script_instance_hash}/job/{id}    *)
(***************************************************************************)
HTTP_202_ACCEPTED == 202

\* the handler with line 99 testing for PENDING only
get_model_compute_task_failed_is_ready(id, script_instance_hash, celery_task_id) ==
    LET state == AsyncResult_state(celery_task_id)
    IN  IF state \in {"PENDING"}
        THEN [status_code |-> 404, body |-> NoneV]
        ELSE IF ready(state)
        THEN [status_code |-> 200,
              body |-> _apply_single_model_format(AsyncResult_result(celery_task_id))]
        ELSE LET job == check_script_model_computing_job(get_script_request(id),
                                                         script_instance_hash)
             IN  IF job = NoneV
                 THEN [status_code |-> 404, body |-> NoneV]
                 ELSE [status_code |-> HTTP_202_ACCEPTED,
                       body |-> [job EXCEPT !.celery_task_status = state]]

\* the handler without the test of lines 115-116
get_model_compute_task_no_job_test(id, script_instance_hash, celery_task_id) ==
    LET state == AsyncResult_state(celery_task_id)
    IN  IF state \in {"PENDING", "FAILURE"}
        THEN [status_code |-> 404, body |-> NoneV]
        ELSE IF ready(state)
        THEN [status_code |-> 200,
              body |-> _apply_single_model_format(AsyncResult_result(celery_task_id))]
        ELSE LET job == check_script_model_computing_job(get_script_request(id),
                                                         script_instance_hash)
             IN  [status_code |-> HTTP_202_ACCEPTED,
                  body |-> IF job = NoneV THEN NoneV
                           ELSE [job EXCEPT !.celery_task_status = state]]

\* the handler with line 99 taking a task that is only sent for an unknown one
get_model_compute_task_sent_is_unknown(id, script_instance_hash, celery_task_id) ==
    LET state == AsyncResult_state(celery_task_id)
    IN  IF state \in {"PENDING", "FAILURE", "SENT"}
        THEN [status_code |-> 404, body |-> NoneV]
        ELSE IF ready(state)
        THEN [status_code |-> 200,
              body |-> _apply_single_model_format(AsyncResult_result(celery_task_id))]
        ELSE LET job == check_script_model_computing_job(get_script_request(id),
                                                         script_instance_hash)
             IN  IF job = NoneV
                 THEN [status_code |-> 404, body |-> NoneV]
                 ELSE [status_code |-> HTTP_202_ACCEPTED,
                       body |-> [job EXCEPT !.celery_task_status = state]]

\* the handler without the branch of lines 102-111: the .compute file decides
get_model_compute_task_no_ready_branch(id, script_instance_hash, celery_task_id) ==
    LET state == AsyncResult_state(celery_task_id)
    IN  IF state \in {"PENDING", "FAILURE"}
        THEN [status_code |-> 404, body |-> NoneV]
        ELSE LET job == check_script_model_computing_job(get_script_request(id),
                                                         script_instance_hash)
             IN  IF job = NoneV
                 THEN [status_code |-> 404, body |-> NoneV]
                 ELSE [status_code |-> HTTP_202_ACCEPTED,
                       body |-> [job EXCEPT !.celery_task_status = state]]

\* the handler with line 99 testing for FAILURE only
get_model_compute_task_pending_is_known(id, script_instance_hash, celery_task_id) ==
    LET state == AsyncResult_state(celery_task_id)
    IN  IF state \in {"FAILURE"}
        THEN [status_code |-> 404, body |-> NoneV]
        ELSE IF ready(state)
        THEN [status_code |-> 200,
              body |-> _apply_single_model_format(AsyncResult_result(celery_task_id))]
        ELSE LET job == check_script_model_computing_job(get_script_request(id),
                                                         script_instance_hash)
             IN  IF job = NoneV
                 THEN [status_code |-> 404, body |-> NoneV]
                 ELSE [status_code |-> HTTP_202_ACCEPTED,
                       body |-> [job EXCEPT !.celery_task_status = state]]

\* the status code and the body the handler answers with
get_model_compute_task(id, script_instance_hash, celery_task_id) ==
    LET state == AsyncResult_state(celery_task_id)
    IN  IF state \in {"PENDING", "FAILURE"}
        THEN [status_code |-> 404, body |-> NoneV]
        ELSE IF ready(state)
        THEN [status_code |-> 200,
              body |-> _apply_single_model_format(AsyncResult_result(celery_task_id))]
        ELSE LET job == check_script_model_computing_job(get_script_request(id),
                                                         script_instance_hash)
             IN  IF job = NoneV
                 THEN [status_code |-> 404, body |-> NoneV]
                 ELSE [status_code |-> HTTP_202_ACCEPTED,
                       body |-> [job EXCEPT !.celery_task_status = state]]

\* the handler sending the task again when it answers 404 for a task it knows
Poll_sends_again(id, script_instance_hash, celery_task_id) ==
    LET r == get_model_compute_task(id, script_instance_hash, celery_task_id)
    IN  /\ resp' = [op |-> "poll", script |-> id, hash |-> script_instance_hash,
                    celery_task_id |-> celery_task_id,
                    status_code |-> r.status_code, body |-> r.body]
        /\ cache' = IF r.status_code = 200 THEN cache_after_result(cache, r.body) ELSE cache
        /\ IF r.status_code = 404 /\ celery_task_id \in 1..Len(tasks) /\ Len(tasks) < MaxTasks
           THEN /\ tasks' = Append(tasks, [tasks[celery_task_id] EXCEPT !.state = "SENT"])
                /\ markers' = set_marker(markers, tasks[celery_task_id].script,
                                         tasks[celery_task_id].hash, Len(tasks) + 1)
           ELSE UNCHANGED <<tasks, markers>>
        /\ UNCHANGED <<enumVars, library, batches, log, publish_jobs, now>>

Poll(id, script_instance_hash, celery_task_id) ==
    LET r == get_model_compute_task(id, script_instance_hash, celery_task_id)
    IN  /\ resp' = [op |-> "poll", script |-> id, hash |-> script_instance_hash,
                    celery_task_id |-> celery_task_id,
                    status_code |-> r.status_code, body |-> r.body]
        /\ cache' = IF r.status_code = 200 THEN cache_after_result(cache, r.body) ELSE cache
        /\ UNCHANGED <<enumVars, library, tasks, markers, batches, log, publish_jobs, now>>

(***************************************************************************)
(* CadLibrary.compute_script_cache_async(script, only_params, batch id,    *)
(* on_done): the coroutine of a batch.  It fails fast on a script that is  *)
(* not cachable, sends a task per variant that is not cached, waits until  *)
(* all of them are resolved and calls on_done(batch id).                   *)
(***************************************************************************)
\* the variants of a batch: the parameters not in only_params keep their default
enumerate_lists(sc, only_params) ==
    [i \in 1..Len(sc.params) |->
        IF \/ only_params = NoneV
           \/ \E k \in 1..Len(only_params.l) : only_params.l[k] = sc.params[i].name
        THEN all_values_per_parameter(sc)[i]
        ELSE ListV(<<sc.params[i].default>>)]

enumerate(sc, only_params) ==
    LET lists == enumerate_lists(sc, only_params)
    IN  [k \in 1..Len(product(lists)) |-> yield_item(sc, product(lists)[k])]

OnlyParams(sc) ==
    {NoneV} \cup { ListV(l) : l \in UNION { [1..n -> {sc.params[i].name : i \in 1..Len(sc.params)}]
                                             : n \in 1..Len(sc.params) } }

batch_items ==
    [x \in UNION { { <<script_id(sc), o>> : o \in OnlyParams(sc) }
                    : sc \in { sc \in AllScripts : is_cachable(sc) } } |->
        enumerate(ScriptAt(x[1]), x[2])]

\* the task has resolved: it succeeded or failed (its result may have expired since)
resolved(t) == tasks[t].state \in {"SUCCESS", "FAILURE", "PENDING"}

coroutine(batch_id, kind, id, only_params) ==
    [id |-> batch_id, kind |-> kind, script |-> id, only_params |-> only_params,
     pc |-> "created", next |-> 1, jobs |-> <<>>]

\* Admin._handle_precalc_request.on_done: a line in the log
precalc_on_done(lg, batch_id) == Append(lg, batch_id)

\* Admin._handle_publish_request.on_done: the publish job is set to success
publish_on_done(jobs, batch_id) ==
    { IF j.id = batch_id THEN [j EXCEPT !.status = "success"] ELSE j : j \in jobs }

BatchStart(b) ==
    /\ batches[b].pc = "created"
    /\ batches' = [batches EXCEPT ![b].pc =
            IF ~is_cachable(ScriptAt(batches[b].script)) THEN "failed"
            ELSE IF product_raises(enumerate_lists(ScriptAt(batches[b].script),
                                                   batches[b].only_params))
            THEN "raised"
            ELSE IF Len(batch_items[<<batches[b].script, batches[b].only_params>>]) = 0
            THEN "waiting"
            ELSE "submitting"]
    /\ UNCHANGED <<enumVars, library, tasks, markers, cache, log, publish_jobs, now>>
    /\ resp' = Unset

BatchSubmit(b) ==
    LET items == batch_items[<<batches[b].script, batches[b].only_params>>]
        item  == items[batches[b].next]
        h     == item[1].s
        pc    == IF batches[b].next = Len(items) THEN "waiting" ELSE "submitting"
    IN  /\ batches[b].pc = "submitting"
        /\ IF cache_get(batches[b].script, h, "step") # {}
           THEN /\ batches' = [batches EXCEPT ![b].next = @ + 1, ![b].pc = pc]
                /\ UNCHANGED <<tasks, markers>>
           ELSE /\ Len(tasks) < MaxTasks
                /\ tasks' = Append(tasks, new_task(batches[b].script, h, DictV(item[2]), "step"))
                /\ markers' = set_marker(markers, batches[b].script, h, Len(tasks) + 1)
                /\ batches' = [batches EXCEPT ![b].next = @ + 1, ![b].pc = pc,
                                              ![b].jobs = Append(@, Len(tasks) + 1)]
        /\ UNCHANGED <<enumVars, library, cache, log, publish_jobs, now>>
    /\ resp' = Unset

BatchDone(b) ==
    /\ batches[b].pc = "waiting"
    /\ \A k \in 1..Len(batches[b].jobs) : resolved(batches[b].jobs[k])
    /\ batches' = [batches EXCEPT ![b].pc = "done"]
    /\ IF batches[b].kind = "precalc"
       THEN /\ log' = precalc_on_done(log, batches[b].id)
            /\ UNCHANGED publish_jobs
       ELSE /\ publish_jobs' = publish_on_done(publish_jobs, batches[b].id)
            /\ UNCHANGED log
    /\ UNCHANGED <<enumVars, library, tasks, markers, cache, now>>
    /\ resp' = Unset

(***************************************************************************)
(* Admin.py: /admin/precalc/{org}/{name}/{version}?params=...              *)
(***************************************************************************)
lower(str) ==
    [i \in 1..Len(str) |->
        IF \E k \in 1..26 : Upper[k] = str[i]
        THEN Lower[CHOOSE k \in 1..26 : Upper[k] = str[i]]
        ELSE str[i]]

\* line 230: the script's parameter names that the request names, in any case
validated_params(sc, params) ==
    LET names == [i \in 1..Len(sc.params) |-> sc.params[i].name]
    IN  SelectSeq(names, LAMBDA pn : \E k \in 1..Len(params) : lower(params[k]) = lower(pn))

\* the body of the response to a raised HTTPException(detail=...)
HTTPException(detail) == [detail |-> detail]

\* lines 242-248 run twice: two coroutines under the one batch id
precalc_create_task_twice(bs, id, only_params) ==
    Append(Append(bs, coroutine(Len(bs) + 1, "precalc", id, ListV(only_params))),
           coroutine(Len(bs) + 1, "precalc", id, ListV(only_params)))

\* lines 236-248: the coroutine create_task schedules, under a new batch id
precalc_create_task(bs, id, only_params) ==
    Append(bs, coroutine(Len(bs) + 1, "precalc", id, ListV(only_params)))

_handle_precalc_request(id, params) ==
    LET scr == get_script_request(id)
    IN  IF scr = NoneV
        THEN /\ resp' = [op |-> "precalc",
                         status_code |-> 400, body |-> HTTPException("Cannot find script")]
             /\ UNCHANGED batches
        ELSE IF Len(validated_params(scr, params)) = 0
        THEN /\ resp' = [op |-> "precalc",
                         status_code |-> 400, body |-> HTTPException("Please supply a list of valid parameter names")]
             /\ UNCHANGED batches
        ELSE /\ Len(batches) < MaxBatches
             /\ batches' = precalc_create_task(batches, id, validated_params(scr, params))
             /\ resp' = [op |-> "precalc",
                         status_code |-> 200, body |-> IntV(Len(batches) + 1)]

Precalc(id, params) ==
    /\ _handle_precalc_request(id, params)
    /\ UNCHANGED <<enumVars, library, tasks, markers, cache, log, publish_jobs, now>>

(***************************************************************************)
(* Admin.py: /admin/publish                                                *)
(***************************************************************************)
SCRIPT_ORG_MIN_CHARS  == 4
SCRIPT_NAME_MIN_CHARS == 4
SCRIPT_CODE_MIN_CHARS == 10

\* CadScript.get_namespace
get_namespace(sc) ==
    IF Len(sc.org) > 0 /\ Len(sc.name) > 0 THEN StrV(sc.org \o <<"/">> \o sc.name) ELSE NoneV

\* the detail of the HTTPException _check_publish_request raises, "ok" if none
_check_publish_request(request) ==
    IF request.script = NoneV THEN "Please supply a script to be published"
    ELSE IF get_namespace(request.script) = NoneV THEN "Make sure your script has a valid namespace"
    ELSE IF Len(request.script.org) < SCRIPT_ORG_MIN_CHARS THEN "The org field of your script is too short"
    ELSE IF Len(request.script.name) < SCRIPT_NAME_MIN_CHARS THEN "The name field of your script is too short"
    ELSE IF request.script.code = NoneV \/ Len(request.script.code.s) < SCRIPT_CODE_MIN_CHARS
    THEN "Your script contains no field code or too little code"
    ELSE "ok"

\* PublishJob.id defaults to one uuid, drawn when the class is defined
DefaultJobId == 0

\* line 164: CadScript has no attribute is_pre_cachable
is_pre_cachable(sc) == "AttributeError"

\* the handler with add_script called before _check_publish_request
_handle_publish_request_adds_first(request) ==
    IF request.script = NoneV
    THEN /\ resp' = [op |-> "publish", status_code |-> 400,
                     body |-> HTTPException(_check_publish_request(request))]
         /\ UNCHANGED library
    ELSE IF script_id(request.script) \in library
    THEN /\ resp' = [op |-> "publish", status_code |-> 400,
                     body |-> HTTPException("Cannot publish script. It already exists.")]
         /\ UNCHANGED library
    ELSE /\ library' = library \cup {script_id(request.script)}
         /\ IF _check_publish_request(request) # "ok"
            THEN resp' = [op |-> "publish", status_code |-> 400,
                          body |-> HTTPException(_check_publish_request(request))]
            ELSE IF ~request.pre_calculate
            THEN resp' = [op |-> "publish", status_code |-> 200,
                          body |-> [id |-> DefaultJobId, script |-> script_id(request.script),
                                    status |-> "success"]]
            ELSE resp' = [op |-> "publish", status_code |-> 500,
                          body |-> HTTPException(is_pre_cachable(request.script))]

_handle_publish_request(request) ==
    IF _check_publish_request(request) # "ok"
    THEN /\ resp' = [op |-> "publish", status_code |-> 400,
                     body |-> HTTPException(_check_publish_request(request))]
         /\ UNCHANGED library
    ELSE IF script_id(request.script) \in library
    THEN /\ resp' = [op |-> "publish", status_code |-> 400,
                     body |-> HTTPException("Cannot publish script. It already exists.")]
         /\ UNCHANGED library
    ELSE /\ library' = library \cup {script_id(request.script)}
         /\ IF ~request.pre_calculate
            THEN resp' = [op |-> "publish", status_code |-> 200,
                          body |-> [id |-> DefaultJobId, script |-> script_id(request.script),
                                    status |-> "success"]]
            ELSE resp' = [op |-> "publish", status_code |-> 500,
                          body |-> HTTPException(is_pre_cachable(request.script))]

Publish(request) ==
    /\ _handle_publish_request(request)
    /\ UNCHANGED <<enumVars, tasks, markers, cache, batches, log, publish_jobs, now>>

(***************************************************************************)
(* Admin.py: the endpoints _add_admin_endpoints registers, each with the   *)
(* credentials the request carries.  Depends(_validate_credentials) runs   *)
(* before the endpoint's body and answers 401 when it raises.              *)
(***************************************************************************)
SECURITY_ADMIN_USERNAME == <<"a","d","m","i","n">>

\* Admin.passphrase
passphrase == <<"s","e","s","a","m","e">>

HTTPBasicCredentials(username, password) == [username |-> username, password |-> password]

\* TRUE when the credentials are returned, FALSE when HTTPException(401) is raised
_validate_credentials(credentials) ==
    /\ credentials.username = SECURITY_ADMIN_USERNAME
    /\ credentials.password = passphrase

HTTP_401_UNAUTHORIZED == 401

Unauthorized(op) ==
    /\ resp' = [op |-> op, status_code |-> HTTP_401_UNAUTHORIZED,
                body |-> HTTPException("Incorrect usernamd and password")]
    /\ UNCHANGED <<enumVars, library, tasks, markers, cache, batches, log, publish_jobs, now>>

\* CadLibrary.get_compute_batch: the stats of a batch, None for an unknown id
get_compute_batch(batch_id) ==
    LET bs == { b \in 1..Len(batches) : batches[b].id = batch_id }
    IN  IF bs = {} THEN NoneV
        ELSE LET b == CHOOSE b \in bs : TRUE
             IN  [batch_id |-> batch_id, script |-> batches[b].script,
                  tasks |-> Len(batches[b].jobs),
                  done |-> Cardinality({ k \in 1..Len(batches[b].jobs) :
                                            resolved(batches[b].jobs[k]) })]

\* POST /admin/publish
publish(request, credentials) ==
    IF ~_validate_credentials(credentials) THEN Unauthorized("publish")
    ELSE Publish(request)

\* Admin._get_publish_job
_get_publish_job(id) ==
    IF \E j \in publish_jobs : j.id = id
    THEN [status_code |-> 200,
          body |-> [(CHOOSE j \in publish_jobs : j.id = id) EXCEPT
                        !.stats = get_compute_batch(id)]]
    ELSE [status_code |-> 404, body |-> NoneV]

\* GET /admin/publish/{job_id}
get_pub_job(job_id, credentials) ==
    IF ~_validate_credentials(credentials) THEN Unauthorized("get_pub_job")
    ELSE /\ resp' = [op |-> "get_pub_job", status_code |-> _get_publish_job(job_id).status_code,
                     body |-> _get_publish_job(job_id).body]
         /\ UNCHANGED <<enumVars, library, tasks, markers, cache, batches, log,
                        publish_jobs, now>>

\* POST /admin/unpublish/{script_id}
unpublish(id, credentials) ==
    IF ~_validate_credentials(credentials) THEN Unauthorized("unpublish")
    ELSE /\ resp' = [op |-> "unpublish", status_code |-> 200, body |-> IntV(id)]
         /\ UNCHANGED <<enumVars, library, tasks, markers, cache, batches, log,
                        publish_jobs, now>>

\* GET /admin/precalc/{script_org}/{script_name}/{script_version}
precalc(id, params, credentials) ==
    IF ~_validate_credentials(credentials) THEN Unauthorized("precalc")
    ELSE Precalc(id, params)

\* GET /admin/precalc/{batch_id}: the endpoint has no credentials dependency
precalc_job(batch_id, credentials) ==
    /\ resp' = [op |-> "precalc_job", status_code |-> 200,
                body |-> get_compute_batch(batch_id)]
    /\ UNCHANGED <<enumVars, library, tasks, markers, cache, batches, log, publish_jobs, now>>

(***************************************************************************)
(* The specifications of the jobs.  Spec is the client's side: model       *)
(* requests, the workers, the result backend's expiry, the clock and the   *)
(* polls of the job status endpoint.  SpecAdmin is the admin's side: the   *)
(* precalc and publish requests and the batches they start, next to model  *)
(* requests, the workers and the polls of a job's own url.                 *)
(***************************************************************************)
\* ModelFormat: the formats a model request may ask for
Formats == {"step", "stl"}

PollIds == {BoxId, NopeId}

PollHashes == { tasks[t].hash : t \in 1..Len(tasks) } \cup {BogusHash}

PrecalcIds == {BoxId, KnobId, NopeId}

PrecalcParams == { <<>>, <<ParamNames[1]>>, <<LabelName>>, <<SizeName, ParamNames[1]>> }

PublishRequests ==
    { [pre_calculate |-> FALSE, script |-> sc] : sc \in {NoneV, Gear, Nut, Box} }
        \cup { [pre_calculate |-> TRUE, script |-> Gear] }

Init ==
    /\ script = Box
    /\ cachable = Unset
    /\ num_variants = Unset
    /\ it_state = "created"
    /\ yielded = <<>>
    /\ req = Unset
    /\ all_dicts = Unset
    /\ digests = <<>>
    /\ InitJobs

Next ==
    \/ \E sc \in JobScripts, format \in Formats : \E d \in RequestDicts(sc) :
          submitOne(script_id(sc), d, format)
    \/ \E t \in 1..Len(tasks) : WorkerStart(t)
    \/ \E t \in 1..Len(tasks), state \in {"SUCCESS", "FAILURE"} : WorkerFinish(t, state)
    \/ \E t \in 1..Len(tasks) : Expire(t)
    \/ Tick
    \/ \E id \in PollIds, h \in PollHashes, t \in 1..(Len(tasks) + 1) : Poll(id, h, t)

Spec == Init /\ [][Next]_vars

NextAdmin ==
    \/ \E sc \in JobScripts : \E d \in RequestDicts(sc) : submitOne(script_id(sc), d, "step")
    \/ \E t \in 1..Len(tasks), state \in {"SUCCESS", "FAILURE"} : WorkerFinish(t, state)
    \/ \E t \in 1..Len(tasks) : Poll(tasks[t].script, tasks[t].hash, t)
    \/ \E id \in PrecalcIds, params \in PrecalcParams : Precalc(id, params)
    \/ \E b \in 1..Len(batches) : BatchStart(b)
    \/ \E b \in 1..Len(batches) : BatchSubmit(b)
    \/ \E b \in 1..Len(batches) : BatchDone(b)
    \/ \E request \in PublishRequests : Publish(request)

SpecAdmin == Init /\ [][NextAdmin]_vars

\* the credentials a request may carry: the admin's, a wrong password, a
\* wrong user name
Credentials ==
    { HTTPBasicCredentials(SECURITY_ADMIN_USERNAME, passphrase),
      HTTPBasicCredentials(SECURITY_ADMIN_USERNAME, <<"g","u","e","s","s">>),
      HTTPBasicCredentials(<<"r","o","o","t">>, passphrase) }

EndpointPublishRequests == PublishRequests \cup { [pre_calculate |-> TRUE, script |-> Dial] }

NextEndpoints ==
    \/ \E request \in EndpointPublishRequests, c \in Credentials : publish(request, c)
    \/ \E job_id \in 0..MaxBatches, c \in Credentials : get_pub_job(job_id, c)
    \/ \E c \in Credentials : unpublish(1, c)
    \/ \E id \in PrecalcIds, params \in PrecalcParams, c \in Credentials : precalc(id, params, c)
    \/ \E batch_id \in 1..MaxBatches, c \in Credentials : precalc_job(batch_id, c)
    \/ \E b \in 1..Len(batches) : BatchStart(b)
    \/ \E b \in 1..Len(batches) : BatchSubmit(b)
    \/ \E t \in 1..Len(tasks), state \in {"SUCCESS", "FAILURE"} : WorkerFinish(t, state)
    \/ \E b \in 1..Len(batches) : BatchDone(b)

SpecEndpoints == Init /\ [][NextEndpoints]_vars

(***************************************************************************)
(* The properties.                                                         *)
(***************************************************************************)
Items(d) == { d[i] : i \in 1..Len(d) }

\* C1: two assignments that are equal as sets of (name, value) pairs, built
\* in different insertion orders, have the same identity
C1_OrderIndependent ==
    (req # Unset /\ Items(req.params.d) = Items(yielded[Len(yielded)][2]))
        => req.hash = yielded[Len(yielded)][1]

\* C2: a poll whose task the result backend reports as unknown (PENDING) or
\* failed is answered 404, whatever script and hash it names and whether or
\* not a marker exists for them
C2_UnknownOrFailedNotFound ==
    (resp.op = "poll" /\ AsyncResult_state(resp.celery_task_id) \in {"PENDING", "FAILURE"})
        => (resp.status_code = 404 /\ resp.body = NoneV)

C2_Witness ==
    /\ resp.op = "poll"
    /\ AsyncResult_state(resp.celery_task_id) = "FAILURE"
    /\ marker_of(resp.script, resp.hash) # {}
    /\ resp.status_code = 404

\* C3: a poll whose task is not resolved is answered, while the task is
\* still unresolved, 202 with the job's elapsed time if a marker exists for
\* the script and hash it names, and 404 if none exists
C3_UnresolvedByMarker ==
    (resp.op = "poll" /\ AsyncResult_state(resp.celery_task_id) \in {"SENT", "STARTED"})
        => IF \E m \in markers : m.script = resp.script /\ m.hash = resp.hash
           THEN /\ resp.status_code = 202
                /\ \E m \in markers :
                      /\ m.script = resp.script /\ m.hash = resp.hash
                      /\ resp.body.elapsed_time = now - m.created_at
           ELSE resp.status_code = 404

C3_Witness ==
    /\ resp.op = "poll"
    /\ AsyncResult_state(resp.celery_task_id) \in {"SENT", "STARTED"}
    /\ resp.status_code = 202
    /\ resp.body.elapsed_time > 0

\* C4: a poll made right after a model request was answered with a job, for
\* that job's script, hash and task id, is answered 202, also when no worker
\* has taken up the task
C4_SubmitThenPoll ==
    [][(/\ resp.op = "model" /\ resp.outcome = "job"
        /\ resp'.op = "poll"
        /\ resp'.script = resp.script /\ resp'.hash = resp.hash
        /\ resp'.celery_task_id = resp.body)
            => resp'.status_code = 202]_vars

C4_Witness ==
    /\ resp.op = "poll"
    /\ AsyncResult_state(resp.celery_task_id) = "SENT"
    /\ tasks[resp.celery_task_id].script = resp.script
    /\ tasks[resp.celery_task_id].hash = resp.hash
    /\ resp.status_code = 202
    /\ resp.body.celery_task_id = resp.celery_task_id
    /\ resp.body.elapsed_time = 0

\* C5: a poll whose task has succeeded is answered 200 with the model of the
\* task's script and hash in its format, and the compute cache then holds
\* that model for (script, hash, format)
C5_ResolvedIsDone ==
    (resp.op = "poll" /\ AsyncResult_state(resp.celery_task_id) = "SUCCESS")
        => LET task == tasks[resp.celery_task_id]
           IN  /\ resp.status_code = 200
               /\ resp.body.results.models = Model(task.script, task.hash, task.format)
               /\ \E c \in cache :
                     /\ c.script = task.script /\ c.hash = task.hash
                     /\ c.format = task.format
                     /\ c.content = resp.body.results.models

C5_Witness ==
    /\ resp.op = "poll"
    /\ AsyncResult_state(resp.celery_task_id) = "SUCCESS"
    /\ resp.status_code = 200
    /\ tasks[resp.celery_task_id].format = "stl"
    /\ \E c \in cache : c.hash = tasks[resp.celery_task_id].hash /\ c.format = "stl"

\* C6: a poll sends no task and changes no marker and no batch, and every
\* poll answered 202 for a script and hash carries the one job of their marker
C6_PollCreatesNoWork ==
    [][resp'.op = "poll"
        => /\ tasks' = tasks /\ markers' = markers /\ batches' = batches
           /\ resp'.status_code = 202
                => /\ Cardinality(marker_of(resp'.script, resp'.hash)) = 1
                   /\ \A m \in marker_of(resp'.script, resp'.hash) :
                         resp'.body.celery_task_id = m.celery_task_id]_vars

C6_Witness ==
    /\ resp.op = "poll"
    /\ resp.status_code = 202
    /\ resp.body.celery_task_id # resp.celery_task_id
    /\ Len(tasks) = MaxTasks

fired(batch_id) == Cardinality({ k \in 1..Len(log) : log[k] = batch_id })

C8_AtMostOneInFlight ==
    \A t1, t2 \in 1..Len(tasks) :
        (t1 # t2 /\ ~resolved(t1) /\ ~resolved(t2))
            => <<tasks[t1].script, tasks[t1].hash>> # <<tasks[t2].script, tasks[t2].hash>>

\* C9: for a cachable script, the count get_num_variants returns is the
\* number of items the enumeration yields
C9_CountIsEnumerated ==
    (it_state = "exhausted" /\ cachable = BoolV(TRUE))
        => num_variants = IntV(Len(yielded))

C9_Witness ==
    /\ it_state = "exhausted" /\ cachable = BoolV(TRUE)
    /\ Len(yielded) >= 2
    /\ \E i \in 1..Len(script.params) : ~script.params[i].enabled

\* C10: a script that is not cachable has an unbounded (None) variant count
C10_NotCachableUnbounded ==
    (cachable = BoolV(FALSE) /\ num_variants # Unset) => num_variants = NoneV

\* the values a parameter contributes: its domain, its default when disabled
domain_of(p) == IF p.enabled THEN p.domain ELSE <<p.default>>

\* the number of combinations of the parameters declared after the i-th
RECURSIVE combinations_after(_, _)
combinations_after(ps, i) ==
    IF i >= Len(ps) THEN 1
    ELSE Len(domain_of(ps[i + 1])) * combinations_after(ps, i + 1)

\* C11: the k-th item the enumeration yields has one entry per declared
\* parameter, in declaration order, whose value is the one at the k-th place
\* of the cartesian product in which the last parameter cycles fastest (a
\* disabled parameter contributing its default only), and the enumeration
\* ends after the whole product
C11_CartesianOrder ==
    /\ \A k \in 1..Len(yielded) :
          LET d == yielded[k][2]
          IN  /\ Len(d) = Len(script.params)
              /\ \A i \in 1..Len(d) :
                    LET vs == domain_of(script.params[i])
                    IN  /\ d[i][1] = script.params[i].name
                        /\ d[i][2] = vs[(((k - 1) \div combinations_after(script.params, i))
                                            % Len(vs)) + 1]
    /\ it_state = "exhausted" => Len(yielded) = combinations_after(script.params, 0)

C11_Witness ==
    /\ it_state = "exhausted"
    /\ Len(script.params) = 2
    /\ Len(yielded) = 4
    /\ yielded[2][2][1][2] = yielded[1][2][1][2]
    /\ yielded[2][2][2][2] # yielded[1][2][2][2]

\* a script with a parameter whose domain is not enumerable
unbounded(sc) == \E i \in 1..Len(sc.params) : sc.params[i].iterable = FALSE

C13_EmptyCoversAll ==
    [][\A id \in PrecalcIds, c \in Credentials :
          ( /\ precalc(id, <<>>, c)
            /\ _validate_credentials(c)
            /\ get_script_request(id) # NoneV
            /\ is_cachable(ScriptAt(id)) )
          => /\ resp'.status_code = 200
             /\ Len(batches') = Len(batches) + 1
             /\ enumerate(ScriptAt(id), batches'[Len(batches')].only_params)
                   = enumerate(ScriptAt(id), NoneV)]_vars

\* the request names a parameter the script does not have, in any case
names_unknown(sc, params) ==
    \E k \in 1..Len(params) :
        \A i \in 1..Len(sc.params) : lower(sc.params[i].name) # lower(params[k])

\* C14: a precalc request with good credentials over a published script that
\* names a parameter the script does not have is answered 400 and starts no
\* batch, also when it names parameters of the script next to it
C14_UnknownRejected ==
    [][\A id \in PrecalcIds, params \in PrecalcParams, c \in Credentials :
          ( /\ precalc(id, params, c)
            /\ _validate_credentials(c)
            /\ get_script_request(id) # NoneV
            /\ names_unknown(ScriptAt(id), params) )
          => /\ resp'.status_code = 400
             /\ batches' = batches]_vars

\* C15: a request with bad credentials to any admin endpoint (publish, publish
\* job status, unpublish, precalc, precalc batch status) is answered 401,
\* changes neither the library nor the batches nor the publish jobs, and
\* returns no job or batch state
C15_BadCredentialsRejected ==
    [][\A c \in Credentials :
          ( /\ ~_validate_credentials(c)
            /\ \/ \E request \in EndpointPublishRequests : publish(request, c)
               \/ \E job_id \in 0..MaxBatches : get_pub_job(job_id, c)
               \/ unpublish(1, c)
               \/ \E id \in PrecalcIds, params \in PrecalcParams : precalc(id, params, c)
               \/ \E batch_id \in 1..MaxBatches : precalc_job(batch_id, c) )
          => /\ resp'.status_code = HTTP_401_UNAUTHORIZED
             /\ UNCHANGED <<library, batches, publish_jobs, tasks>>]_vars

\* C16: a publish request with good credentials that passes the checks, for a
\* script not yet in the library, is answered with a job: of status 'success'
\* and with no batch started when no pre-calculation is asked for or the
\* script is not cachable, of status 'computing' and with exactly one batch
\* started under the job's id otherwise
C16_PublishStatus ==
    [][\A request \in EndpointPublishRequests, c \in Credentials :
          ( /\ publish(request, c)
            /\ _validate_credentials(c)
            /\ _check_publish_request(request) = "ok"
            /\ script_id(request.script) \notin library )
          => /\ resp'.status_code = 200
             /\ IF ~request.pre_calculate \/ ~is_cachable(request.script)
                THEN /\ resp'.body.status = "success"
                     /\ batches' = batches
                ELSE /\ resp'.body.status = "computing"
                     /\ Len(batches') = Len(batches) + 1
                     /\ batches'[Len(batches')].id = resp'.body.id]_vars

\* a task the backend has forgotten: sent once, resolved, and expired since
expired(t) == t \in 1..Len(tasks) /\ tasks[t].state = "PENDING"

\* C17: a poll of a task whose result has expired is answered 404, never 200
\* or 202, and a task that has expired stays expired
C17_ExpiredNotFound ==
    [][/\ ( /\ resp'.op = "poll"
            /\ resp'.celery_task_id \in 1..Len(tasks')
            /\ tasks'[resp'.celery_task_id].state = "PENDING" )
             => (resp'.status_code = 404 /\ resp'.body = NoneV)
       /\ \A t \in 1..Len(tasks) : expired(t) => expired(t)']_vars

C17_Witness ==
    /\ resp.op = "poll"
    /\ expired(resp.celery_task_id)
    /\ resp.status_code = 404
    /\ \E t \in 1..Len(tasks) :
          /\ t # resp.celery_task_id
          /\ tasks[t].hash = tasks[resp.celery_task_id].hash
          /\ tasks[t].state \in {"SENT", "STARTED"}
          /\ marker_of(tasks[t].script, tasks[t].hash) # {}

\* C18: once a task has transitioned to DONE or FAILED no marker exists for
\* its identity, in every state after the transition
C18_NoMarkerAfterResolved ==
    \A t \in 1..Len(tasks) :
        tasks[t].state \in {"SUCCESS", "FAILURE", "PENDING"}
            => marker_of(tasks[t].script, tasks[t].hash) = {}

\* C18 as amended: the transition of a task to DONE or FAILED deletes the
\* marker of its identity (none exists right after it), a marker never refers
\* to a resolved task, and a marker appears only with a new task sent for
\* its identity
C18_MarkerDeletedAtTransition ==
    [][/\ \A t \in 1..Len(tasks) :
             (tasks[t].state \in {"SENT", "STARTED"} /\ tasks'[t].state \in {"SUCCESS", "FAILURE"})
                => marker_of(tasks[t].script, tasks[t].hash)' = {}
       /\ \A m \in markers' : tasks'[m.celery_task_id].state \in {"SENT", "STARTED"}
       /\ \A m \in markers' \ markers :
             /\ Len(tasks') = Len(tasks) + 1
             /\ m.celery_task_id = Len(tasks')
             /\ tasks'[Len(tasks')].script = m.script
             /\ tasks'[Len(tasks')].hash = m.hash]_vars

C18_Witness ==
    \E t \in 1..Len(tasks), u \in 1..Len(tasks) :
        /\ tasks[t].state \in {"SUCCESS", "FAILURE"}
        /\ u > t
        /\ tasks[u].script = tasks[t].script /\ tasks[u].hash = tasks[t].hash
        /\ tasks[u].state = "STARTED"
        /\ marker_of(tasks[t].script, tasks[t].hash)
              = { [script |-> tasks[u].script, hash |-> tasks[u].hash,
                   celery_task_id |-> u, created_at |-> now] }

\* C19: computing an identity, by hash() or while the variants are
\* enumerated, leaves the script and the request attached to it as they are
C19_HashIsPure == [][script' = script]_vars

\* the entries the cache holds under (script, hash, format)
cached(ch, id, h, format) ==
    { c \in ch : c.script = id /\ c.hash = h /\ c.format = format }

\* C20: an entry that was put in the cache stays as it is and is the only one
\* under its (identity, format), a model request that finds it is answered
\* with its content, and no task is sent for an (identity, format) that has
\* an entry
C20_CacheIdempotent ==
    [][/\ \A c \in cache : cached(cache', c.script, c.hash, c.format) = {c}
       /\ \A t \in (Len(tasks) + 1)..Len(tasks') :
             cached(cache, tasks'[t].script, tasks'[t].hash, tasks'[t].format) = {}
       /\ (resp'.op = "model" /\ resp'.outcome = "cached")
             => \E c \in cache : /\ c.script = resp'.script /\ c.hash = resp'.hash
                                 /\ c.content = resp'.body]_vars

C20_Witness ==
    /\ resp.op = "model"
    /\ resp.outcome = "cached"
    /\ \E c \in cache :
          /\ c.script = resp.script /\ c.hash = resp.hash /\ c.content = resp.body
          /\ Cardinality({ t \in 1..Len(tasks) :
                              /\ tasks[t].script = c.script /\ tasks[t].hash = c.hash
                              /\ tasks[t].format = c.format }) = 1
          /\ \E t \in 1..Len(tasks) :
                /\ tasks[t].hash = c.hash /\ tasks[t].format = c.format
                /\ tasks[t].state = "PENDING"

\* C21: two hash() calls on different (script name, assignment) pairs feed
\* different strings to the digest
C21_DigestInputInjective ==
    \A a \in 1..Len(digests), b \in 1..Len(digests) :
        (digests[a].name # digests[b].name
            \/ Items(digests[a].params.d) # Items(digests[b].params.d))
        => digests[a].inp # digests[b].inp

\* C22: an accepted publish request with pre_calculate for a cachable script
\* registers its publish job in the same step that creates the batch
\* coroutine, before the coroutine has taken a step, and whenever a publish
\* batch is done its job is registered with status 'success'
C22_JobRegisteredBeforeBatch ==
    [][/\ \A request \in EndpointPublishRequests, c \in Credentials :
             ( /\ publish(request, c)
               /\ _validate_credentials(c)
               /\ _check_publish_request(request) = "ok"
               /\ script_id(request.script) \notin library
               /\ request.pre_calculate
               /\ is_cachable(request.script) )
             => /\ Len(batches') = Len(batches) + 1
                /\ batches'[Len(batches')].kind = "publish"
                /\ batches'[Len(batches')].pc = "created"
                /\ \E j \in publish_jobs' : /\ j.id = batches'[Len(batches')].id
                                            /\ j.status = "computing"
       /\ \A b \in 1..Len(batches') :
             (batches'[b].kind = "publish" /\ batches'[b].pc = "done")
                => \E j \in publish_jobs' : j.id = batches'[b].id /\ j.status = "success"]_vars

C23_ResultOfRequestedIdentity ==
    (resp.op = "poll" /\ resp.status_code \in {200, HTTP_202_ACCEPTED})
        => /\ resp.celery_task_id \in 1..Len(tasks)
           /\ tasks[resp.celery_task_id].script = resp.script
           /\ tasks[resp.celery_task_id].hash = resp.hash
           /\ resp.status_code = 200
                 => /\ resp.body.script = resp.script
                    /\ resp.body.request.hash = resp.hash

\* C24: a publish request with good credentials that fails a check of
\* _check_publish_request, or whose script is in the library already, is
\* answered 400, and a publish answered 400 leaves the library, the batches,
\* the tasks and the publish jobs as they are
C24_RejectedPublishChangesNothing ==
    [][/\ \A request \in EndpointPublishRequests, c \in Credentials :
             ( /\ publish(request, c)
               /\ _validate_credentials(c)
               /\ \/ _check_publish_request(request) # "ok"
                  \/ script_id(request.script) \in library )
             => /\ resp'.status_code = 400
                /\ UNCHANGED <<library, batches, tasks, publish_jobs>>
       /\ (resp'.op = "publish" /\ resp'.status_code = 400)
             => UNCHANGED <<library, batches, tasks, publish_jobs>>]_vars

C24_Witness ==
    /\ resp.op = "publish"
    /\ resp.status_code = 400
    /\ resp.body = HTTPException("The name field of your script is too short")
    /\ GearId \in library
    /\ script_id(Nut) \notin library
    /\ batches # <<>>

\* C25: a job that a publish request returned is found by the publish job
\* status query under its id: a query with good credentials for the id of a
\* job some publish request has returned is answered 200 with that job
C25_ReturnedJobRetrievable ==
    [][\A c \in Credentials, job_id \in 0..MaxBatches :
          ( /\ resp.op = "publish"
            /\ resp.status_code = 200
            /\ resp.body.id = job_id
            /\ _validate_credentials(c)
            /\ get_pub_job(job_id, c) )
          => /\ resp'.status_code = 200
             /\ resp'.body.id = job_id
             /\ resp'.body.script = resp.body.script]_vars

\* C27: a publish job is returned and registered with status 'success' or
\* 'computing', a registered job only ever changes from 'computing' to
\* 'success', when a publish batch is done, and a publish job status query
\* leaves the registry as it is
C27_StatusMonotone ==
    [][/\ (resp'.op = "publish" /\ resp'.status_code = 200)
             => resp'.body.status \in {"success", "computing"}
       /\ \A j \in publish_jobs' :
             \/ j \in publish_jobs
             \/ /\ j.status \in {"success", "computing"}
                /\ \A k \in publish_jobs : k.id # j.id
             \/ /\ j.status = "success"
                /\ \E k \in publish_jobs : k.id = j.id /\ k.status = "computing"
                /\ \E b \in 1..Len(batches) :
                      /\ batches[b].id = j.id
                      /\ batches[b].pc = "waiting" /\ batches'[b].pc = "done"
       /\ \A j \in publish_jobs : \E k \in publish_jobs' : k.id = j.id
       /\ resp'.op = "get_pub_job" => publish_jobs' = publish_jobs]_vars

=========================================================================
